---- MODULE Spec2Model ----
(***************************************************************************)
(* A sparse, fixed-depth Merkle tree kept in a key-value store            *)
(* (src/src/merkle_tree.ts, src/src/sha256_hasher.ts).                    *)
(*                                                                         *)
(* Byte strings.  SHA-256 cannot be evaluated here, so a Buffer is a term: *)
(*   <<"B", s>>        the literal bytes s                                 *)
(*   <<"E", d>>        the digest of the empty subtree of depth d          *)
(*   <<"D", b>>        the SHA-256 digest of buffer b (any other digest)   *)
(*   <<"cat", a, b>>   Buffer.concat([a, b]) when a or b is not literal    *)
(*   <<"U", s>>        the UTF-8 bytes of a string s that is not text      *)
(* and a JavaScript string is                                              *)
(*   <<"T", s>>        text with the ASCII codes s                         *)
(*   <<"S", b>>        b.toString(), the UTF-8 decoding of a buffer b      *)
(* Two digests are equal iff their terms are: SHA-256 is taken to be       *)
(* collision free, and so is the decoding of a digest to a string.         *)
(***************************************************************************)
EXTENDS Integers, Sequences, FiniteSets, TLC

MAX_DEPTH == 32

LEAF_BYTES == 64

(* A JavaScript number holding an integer is a pair <<hi, lo>> standing for
   hi * 2^16 + lo with lo in 0..2^16-1: the indices of a depth-32 tree reach
   2^32-1, and the 32-bit operators yield values down to -2^31. *)
Two16 == 65536

Two15 == 32768

Num(n) == << n \div Two16, n % Two16 >>

(* ----- bounds of the model ----- *)
MaxUpdates == 2

MaxAborts == 1

(* ----- Buffer primitives ----- *)
Bytes(s) == <<"B", s>>

Zeros(n) == [k \in 1..n |-> 0]

RECURSIVE BufLen(_)
BufLen(b) ==
  CASE b[1] = "B"   -> Len(b[2])
    [] b[1] = "E"   -> 32
    [] b[1] = "D"   -> 32
    [] b[1] = "cat" -> BufLen(b[2]) + BufLen(b[3])
    [] OTHER        -> 0 - 1

Concat(a, b) ==
  IF a[1] = "B" /\ b[1] = "B" THEN <<"B", a[2] \o b[2]>> ELSE <<"cat", a, b>>

BufferFrom(str) == IF str[1] = "T" THEN <<"B", str[2]>> ELSE <<"U", str>>

BufToString(b) == IF b[1] = "B" THEN <<"T", b[2]>> ELSE <<"S", b>>

(* buf.writeUInt32LE(n): the four bytes, or a RangeError outside uint32 *)
UInt32Ok(x) == x[1] >= 0 /\ x[1] < Two16

LE32(x) == << x[2] % 256, x[2] \div 256, x[1] % 256, x[1] \div 256 >>

(* buf.readUInt32LE(off): defined when four literal bytes lie at off *)
CanReadUInt32LE(b, off) ==
  /\ b[1] = "cat"
  /\ BufLen(b[2]) = off
  /\ b[3][1] = "B"
  /\ Len(b[3][2]) >= 4

ReadUInt32LE(b, off) ==
  LET s == b[3][2] IN << s[3] + 256 * s[4], s[1] + 256 * s[2] >>

(* buf.slice(0, n) of a buffer that starts with an n-byte part *)
SliceHead(b, n) ==
  IF b[1] = "cat" /\ BufLen(b[2]) = n THEN b[2]
  ELSE IF BufLen(b) = n THEN b
  ELSE <<"slice", b>>

(* ----- JavaScript 32-bit integer operators ----- *)
ToInt32(x) ==
  LET h == x[1] % Two16 IN << IF h >= Two15 THEN h - Two16 ELSE h, x[2] >>

Xor1(x) == LET m == ToInt32(x) IN << m[1], IF m[2] % 2 = 0 THEN m[2] + 1 ELSE m[2] - 1 >>

And1(x) == x[2] % 2

(* mutant: the index is shifted by two bits *)
ShrTwo(x) == LET m == ToInt32(x) IN << m[1] \div 4, (m[2] \div 4) + (m[1] % 4) * (Two15 \div 2) >>

(* mutant: the index is not shifted *)
ShrNone(x) == x

Shr1(x) == LET m == ToInt32(x) IN << m[1] \div 2, (m[2] \div 2) + (m[1] % 2) * Two15 >>

(* ----- Sha256Hasher ----- *)
hash(data) ==
  IF data = <<"B", Zeros(64)>> THEN <<"E", 0>>
  ELSE IF data[1] = "cat" /\ data[2] = data[3] /\ data[2][1] = "E"
       THEN <<"E", data[2][2] + 1>>
  ELSE <<"D", data>>

compress(lhs, rhs) == hash(Concat(lhs, rhs))

HasherInit == << hash(Bytes(Zeros(64))) >>

(* mutant: the child is the first cached entry, not the last *)
RECURSIVE GrowCacheFirstChild(_, _)
GrowCacheFirstChild(cache, depth) ==
  IF depth >= Len(cache) - 1
  THEN GrowCacheFirstChild(Append(cache, compress(cache[1], cache[1])), depth)
  ELSE cache

(* mutant: the loop runs only while the depth asked for is not cached *)
RECURSIVE GrowCacheExact(_, _)
GrowCacheExact(cache, depth) ==
  IF depth > Len(cache) - 1
  THEN GrowCacheExact(Append(cache, compress(cache[Len(cache)], cache[Len(cache)])), depth)
  ELSE cache

RECURSIVE GrowCache(_, _)
GrowCache(cache, depth) ==
  IF depth >= Len(cache) - 1
  THEN GrowCache(Append(cache, compress(cache[Len(cache)], cache[Len(cache)])), depth)
  ELSE cache

(* mutant: the entry returned is the one of the next depth *)
emptyHashNext(cache, depth) == GrowCache(cache, depth + 1)[depth + 2]

(* mutant: the entry returned is the last one cached, not the one asked for *)
emptyHashLast(cache, depth) ==
  LET grown == GrowCache(cache, depth) IN grown[Len(grown)]

emptyHash(cache, depth) == GrowCache(cache, depth)[depth + 1]

(* ----- key derivation ----- *)
KeyOk(depth, index) == UInt32Ok(Num(depth)) /\ UInt32Ok(index)

(* mutant: the tree's name is left out of the key *)
generateKeyNoName(name, depth, index) ==
  hash(Bytes(LE32(Num(depth)) \o LE32(index)))

generateKey(name, depth, index) ==
  hash(Concat(BufferFrom(name), Bytes(LE32(Num(depth)) \o LE32(index))))

(* mutant: the index is left out of the key *)
NodeKeyNoIndex(name, depth, index) == BufToString(generateKey(name, depth, Num(0)))

NodeKey(name, depth, index) == BufToString(generateKey(name, depth, index))

MetaKey(name) == name

(* mutant: the root is not copied into the record *)
MetaDataRootNotCopied(root, depth) ==
  Concat(Bytes(Zeros(32)), Bytes(LE32(Num(depth)) \o Zeros(4)))

(* ----- the metadata record: Buffer.alloc(40), the root copied to its start,
   the depth written as uint32 LE at offset 32; the last four bytes stay zero ----- *)
MetaData(root, depth) == Concat(root, Bytes(LE32(Num(depth)) \o Zeros(4)))

(* ----- inputs ----- *)
TextA == <<"T", <<65>>>>

TextB == <<"T", <<66>>>>

(* a name that is, character for character, the key string of node (0, 0) of tree A *)
TextK == BufToString(generateKey(TextA, 0, Num(0)))

AllNames == {TextA, TextB, TextK}

Calls == {1, 2}

SmallDepths == {1, 2}

ReqDepths == {0, MAX_DEPTH, MAX_DEPTH + 1} \cup SmallDepths

Values == { <<97>>, Zeros(LEAF_BYTES), Zeros(LEAF_BYTES + 1) }

RECURSIVE Pow2(_)
Pow2(n) == IF n = 0 THEN 1 ELSE 2 * Pow2(n - 1)

(* ----- state ----- *)
VARIABLES
  db,        \* the key-value store: key string -> value buffer
  tree,      \* per name, the live MerkleTree instance: depth, root, hasher cache
  call,      \* the asynchronous calls: position, locals, pending store operation
  leaves,    \* history: per name, the payload a completed updateElement wrote last at each index
  dirty,     \* history: the names on which an updateElement was abandoned or overlapped
  lastRet,   \* history: per name, the root returned last (by new when it created the
             \* record, or by a completed updateElement) and the depth of the tree
  budget,    \* updateElement calls that may still be started
  aborts     \* store operations that may still fail: a put that is rejected or
             \* never carried out, a get that rejects with an error other than not-found

vars == <<db, tree, call, leaves, dirty, lastRet, budget, aborts>>

NoBuf == <<>>

NoTree == [st |-> "none", depth |-> 0, root |-> NoBuf, emptyHashCache |-> <<>>]

Idle ==
  [pc |-> "idle", kind |-> "none", name |-> NoBuf, index |-> Num(0), depth |-> 0,
   hashValue |-> NoBuf, siblingHash |-> NoBuf, key |-> NoBuf, data |-> NoBuf,
   pathData |-> <<>>, ret |-> NoBuf, ops |-> <<>>,
   argDepth |-> 0, argIndex |-> Num(0), argValue |-> <<>>,
   preDb |-> <<>>, preRoot |-> NoBuf, preLeaves |-> <<>>, preDirty |-> FALSE,
   overlapped |-> FALSE,
   faults |-> <<>>]    \* history: the positions in ops of the gets that the store failed

InFlightPcs ==
  {"newGet", "newPut", "putLeaf", "getSib", "putNode", "putMeta", "getPathSib", "getPathNode"}

InFlight(c) == call[c].pc \in InFlightPcs

Free(c) == ~InFlight(c)

Has(key) == key \in DOMAIN db

Put(key, value) == [k \in DOMAIN db \cup {key} |-> IF k = key THEN value ELSE db[k]]

Init ==
  /\ db = <<>>
  /\ tree = [n \in AllNames |-> NoTree]
  /\ call = [c \in Calls |-> Idle]
  /\ leaves = [n \in AllNames |-> <<>>]
  /\ dirty = {}
  /\ lastRet = [n \in AllNames |-> [root |-> NoBuf, depth |-> 0]]
  /\ budget = MaxUpdates
  /\ aborts = MaxAborts

(* the other calls in flight on the same tree *)
Others(c, n) == {d \in Calls \ {c} : InFlight(d) /\ call[d].name = n}

MarkOverlap(c, n, fresh) ==
  [d \in Calls |->
     IF d = c THEN [fresh EXCEPT !.overlapped = Others(c, n) # {}]
     ELSE IF d \in Others(c, n) THEN [call[d] EXCEPT !.overlapped = TRUE]
     ELSE call[d]]

(* ----- MerkleTree.new ----- *)
(* mutant: a depth of 0 passes the constructor's check *)
DepthOkFromZero(depth) == depth >= 0 /\ depth <= MAX_DEPTH

DepthOk(depth) == depth >= 1 /\ depth <= MAX_DEPTH

(* meta.readUInt32LE(32) as a depth; a value of 2^16 or more is out of range anyway *)
MetaDepth(meta) ==
  LET x == ReadUInt32LE(meta, 32) IN IF x[1] = 0 THEN x[2] ELSE MAX_DEPTH + 1

(* new up to its first await: db.get(Buffer.from(name)) is issued *)
NewStart(c, n, d) ==
  /\ Free(c)
  /\ tree[n].st = "none"
  /\ call' = [call EXCEPT ![c] =
       [Idle EXCEPT !.pc = "newGet", !.kind = "new", !.name = n,
                    !.key = BufToString(BufferFrom(n)),
                    !.ops = << <<"get", BufToString(BufferFrom(n))>> >>,
                    !.argDepth = d, !.preDb = db]]
  /\ UNCHANGED <<db, tree, leaves, dirty, lastRet, budget, aborts>>

(* new with no record in hand (meta is undefined): construct with the requested
   depth and issue the metadata put *)
NewCreate(c, cr) ==
  IF DepthOk(cr.argDepth)
  THEN LET root == emptyHash(HasherInit, cr.argDepth) IN
       /\ tree' = [tree EXCEPT ![cr.name] =
            [st |-> "opening", depth |-> cr.argDepth, root |-> root,
             emptyHashCache |-> GrowCache(HasherInit, cr.argDepth)]]
       /\ call' = [call EXCEPT ![c] =
            [cr EXCEPT !.pc = "newPut", !.key = MetaKey(cr.name),
                       !.data = MetaData(root, cr.argDepth),
                       !.ops = Append(@, <<"put", MetaKey(cr.name)>>)]]
  ELSE /\ call' = [call EXCEPT ![c] = [cr EXCEPT !.pc = "threw"]]
       /\ UNCHANGED tree

(* the get has completed: load the record, or construct and issue the metadata put *)
NewGet(c) ==
  LET cr == call[c]
      meta == db[cr.key]
  IN
  /\ cr.pc = "newGet"
  /\ IF Has(cr.key)
     THEN IF CanReadUInt32LE(meta, 32) /\ DepthOk(MetaDepth(meta))
          THEN /\ tree' = [tree EXCEPT ![cr.name] =
                    [st |-> "open", depth |-> MetaDepth(meta),
                     root |-> SliceHead(meta, 32), emptyHashCache |-> HasherInit]]
               /\ call' = [call EXCEPT ![c].pc = "done"]
          ELSE /\ call' = [call EXCEPT ![c].pc = "threw"]
               /\ UNCHANGED tree
     ELSE NewCreate(c, cr)
  /\ UNCHANGED <<db, leaves, dirty, lastRet, budget, aborts>>

(* the get has rejected with a store error: .catch(() => {}) leaves meta
   undefined, whether or not a record is stored *)
NewGetFault(c) ==
  LET cr == call[c] IN
  /\ cr.pc = "newGet" /\ aborts > 0
  /\ NewCreate(c, [cr EXCEPT !.faults = Append(@, Len(cr.ops))])
  /\ aborts' = aborts - 1
  /\ dirty' = dirty \cup {cr.name}
  /\ UNCHANGED <<db, leaves, lastRet, budget>>

NewPut(c) ==
  LET cr == call[c] IN
  /\ cr.pc = "newPut"
  /\ db' = Put(cr.key, cr.data)
  /\ tree' = [tree EXCEPT ![cr.name].st = "open"]
  /\ call' = [call EXCEPT ![c].pc = "done"]
  /\ lastRet' = [lastRet EXCEPT ![cr.name] =
                   [root |-> tree[cr.name].root, depth |-> tree[cr.name].depth]]
  /\ UNCHANGED <<leaves, dirty, budget, aborts>>

(* ----- MerkleTree.updateElement ----- *)
(* writeNode up to its store put: the length check, then the key *)
WriteNodeOk(depth, index, value) == BufLen(value) <= LEAF_BYTES /\ KeyOk(depth, index)

(* mutant: the loop stops one level early (depth < this.depth) *)
UpdateLoopOneLess(cr, tr) ==
  IF cr.depth < tr.depth
  THEN [cr EXCEPT !.pc = "getSib",
                  !.key = NodeKey(cr.name, cr.depth - 1, Xor1(cr.index)),
                  !.ops = Append(@, <<"get", NodeKey(cr.name, cr.depth - 1, Xor1(cr.index))>>)]
  ELSE [cr EXCEPT !.pc = "putMeta", !.key = MetaKey(cr.name),
                  !.data = MetaData(cr.hashValue, tr.depth),
                  !.ops = Append(@, <<"put", MetaKey(cr.name)>>)]

(* the loop head of updateElement, run after a put has completed: either the
   next sibling read is issued, or the root is set and the metadata put issued *)
UpdateLoop(cr, tr) ==
  IF cr.depth <= tr.depth
  THEN LET siblingIndex == Xor1(cr.index) IN
       IF KeyOk(cr.depth - 1, siblingIndex)
       THEN [cr EXCEPT !.pc = "getSib",
                       !.key = NodeKey(cr.name, cr.depth - 1, siblingIndex),
                       !.ops = Append(@, <<"get", NodeKey(cr.name, cr.depth - 1, siblingIndex)>>)]
       ELSE [cr EXCEPT !.pc = "threw"]
  ELSE [cr EXCEPT !.pc = "putMeta", !.key = MetaKey(cr.name),
                  !.data = MetaData(cr.hashValue, tr.depth),
                  !.ops = Append(@, <<"put", MetaKey(cr.name)>>)]

(* mutant: the root is assigned at every level, not once the loop is left *)
RootAfterEachPut(next, tr) == next.hashValue

(* mutant: the root is never assigned *)
RootAfterNever(next, tr) == tr.root

(* this.root = hashValue, once the loop is left *)
RootAfter(next, tr) == IF next.pc = "putMeta" THEN next.hashValue ELSE tr.root

UpdateStart(c, n, i, v) ==
  LET hashValue == hash(Bytes(v))
      fresh == [Idle EXCEPT !.kind = "update", !.name = n, !.index = i, !.depth = 0,
                            !.hashValue = hashValue, !.argIndex = i, !.argValue = v,
                            !.preDb = db, !.preRoot = tree[n].root,
                            !.preLeaves = leaves[n], !.preDirty = n \in dirty]
      started == IF WriteNodeOk(0, i, hashValue)
                 THEN [fresh EXCEPT !.pc = "putLeaf", !.key = NodeKey(n, 0, i),
                                    !.data = hashValue,
                                    !.ops = << <<"put", NodeKey(n, 0, i)>> >>]
                 ELSE [fresh EXCEPT !.pc = "threw"]
  IN
  /\ Free(c) /\ budget > 0
  /\ tree[n].st = "open"
  /\ call' = MarkOverlap(c, n, started)
  /\ dirty' = IF Others(c, n) # {} THEN dirty \cup {n} ELSE dirty
  /\ budget' = budget - 1
  /\ UNCHANGED <<db, tree, leaves, lastRet, aborts>>

UpdatePutLeaf(c) ==
  LET cr == call[c]
      tr == tree[cr.name]
      next == UpdateLoop([cr EXCEPT !.depth = 1], tr)
  IN
  /\ cr.pc = "putLeaf"
  /\ db' = Put(cr.key, cr.data)
  /\ call' = [call EXCEPT ![c] = next]
  /\ tree' = [tree EXCEPT ![cr.name].root = RootAfter(next, tr)]
  /\ UNCHANGED <<leaves, dirty, lastRet, budget, aborts>>

(* mutant: the stored value is not used *)
ReadResultEmpty(key, cache, depth) == emptyHash(cache, depth)

(* readNode after its store get: the stored value, or emptyHash(depth) *)
ReadResult(key, cache, depth) == IF Has(key) THEN db[key] ELSE emptyHash(cache, depth)

CacheAfterRead(key, cache, depth) == IF Has(key) THEN cache ELSE GrowCache(cache, depth)

(* mutant: the updated node always goes on the left *)
CombineNodeFirst(index, hashValue, siblingHash) == compress(hashValue, siblingHash)

(* the parent hash: the node on the left when its index is even *)
Combine(index, hashValue, siblingHash) ==
  IF And1(index) = 0 THEN compress(hashValue, siblingHash)
                     ELSE compress(siblingHash, hashValue)

(* mutant: a failed read yields 32 zero bytes *)
ReadFaultZeros(cache, depth) == Bytes(Zeros(32))

(* readNode when its store get rejects, for whatever reason: the catch branch *)
ReadFault(cache, depth) == emptyHash(cache, depth)

(* updateElement once readNode has returned siblingHash: combine, issue the put *)
UpdateCombine(c, cr, siblingHash, cache) ==
  LET hashValue == Combine(cr.index, cr.hashValue, siblingHash)
      parent == Shr1(cr.index)
  IN
  /\ tree' = [tree EXCEPT ![cr.name].emptyHashCache = cache]
  /\ call' = [call EXCEPT ![c] =
       IF WriteNodeOk(cr.depth, parent, hashValue)
       THEN [cr EXCEPT !.pc = "putNode", !.siblingHash = siblingHash,
                       !.hashValue = hashValue,
                       !.key = NodeKey(cr.name, cr.depth, parent), !.data = hashValue,
                       !.ops = Append(@, <<"put", NodeKey(cr.name, cr.depth, parent)>>)]
       ELSE [cr EXCEPT !.pc = "threw", !.hashValue = hashValue]]

UpdateGetSib(c) ==
  LET cr == call[c]
      tr == tree[cr.name]
  IN
  /\ cr.pc = "getSib"
  /\ UpdateCombine(c, cr, ReadResult(cr.key, tr.emptyHashCache, cr.depth - 1),
                   CacheAfterRead(cr.key, tr.emptyHashCache, cr.depth - 1))
  /\ UNCHANGED <<db, leaves, dirty, lastRet, budget, aborts>>

(* the sibling read hits a store fault *)
UpdateGetSibFault(c) ==
  LET cr == call[c]
      tr == tree[cr.name]
  IN
  /\ cr.pc = "getSib" /\ aborts > 0
  /\ UpdateCombine(c, [cr EXCEPT !.faults = Append(@, Len(cr.ops))],
                   ReadFault(tr.emptyHashCache, cr.depth - 1),
                   GrowCache(tr.emptyHashCache, cr.depth - 1))
  /\ aborts' = aborts - 1
  /\ dirty' = dirty \cup {cr.name}
  /\ UNCHANGED <<db, leaves, lastRet, budget>>

UpdatePutNode(c) ==
  LET cr == call[c]
      tr == tree[cr.name]
      next == UpdateLoop([cr EXCEPT !.depth = cr.depth + 1, !.index = Shr1(cr.index)], tr)
  IN
  /\ cr.pc = "putNode"
  /\ db' = Put(cr.key, cr.data)
  /\ call' = [call EXCEPT ![c] = next]
  /\ tree' = [tree EXCEPT ![cr.name].root = RootAfter(next, tr)]
  /\ UNCHANGED <<leaves, dirty, lastRet, budget, aborts>>

UpdatePutMeta(c) ==
  LET cr == call[c]
      n == cr.name
  IN
  /\ cr.pc = "putMeta"
  /\ db' = Put(cr.key, cr.data)
  /\ call' = [call EXCEPT ![c] = [cr EXCEPT !.pc = "done", !.ret = tree[n].root]]
  /\ leaves' = [leaves EXCEPT ![n] =
       [k \in DOMAIN leaves[n] \cup {cr.argIndex} |->
          IF k = cr.argIndex THEN cr.argValue ELSE leaves[n][k]]]
  /\ lastRet' = [lastRet EXCEPT ![n].root = tree[n].root]
  /\ UNCHANGED <<tree, dirty, budget, aborts>>

(* ----- MerkleTree.getHashPath ----- *)
PathLoop(cr, tr) ==
  IF cr.depth < tr.depth
  THEN LET siblingIndex == Xor1(cr.index) IN
       IF KeyOk(cr.depth, siblingIndex)
       THEN [cr EXCEPT !.pc = "getPathSib",
                       !.key = NodeKey(cr.name, cr.depth, siblingIndex),
                       !.ops = Append(@, <<"get", NodeKey(cr.name, cr.depth, siblingIndex)>>)]
       ELSE [cr EXCEPT !.pc = "threw"]
  ELSE [cr EXCEPT !.pc = "done"]

PathStart(c, n, i) ==
  LET fresh == [Idle EXCEPT !.kind = "path", !.name = n, !.index = i, !.depth = 0,
                            !.argIndex = i, !.preDb = db, !.preRoot = tree[n].root]
  IN
  /\ Free(c)
  /\ tree[n].st = "open"
  /\ call' = MarkOverlap(c, n, PathLoop(fresh, tree[n]))
  /\ UNCHANGED <<db, tree, leaves, dirty, lastRet, budget, aborts>>

(* getHashPath once readNode has returned siblingHash: issue the node read *)
PathSibRead(c, cr, siblingHash, cache) ==
  /\ tree' = [tree EXCEPT ![cr.name].emptyHashCache = cache]
  /\ call' = [call EXCEPT ![c] =
       IF KeyOk(cr.depth, cr.index)
       THEN [cr EXCEPT !.pc = "getPathNode",
                       !.siblingHash = siblingHash,
                       !.key = NodeKey(cr.name, cr.depth, cr.index),
                       !.ops = Append(@, <<"get", NodeKey(cr.name, cr.depth, cr.index)>>)]
       ELSE [cr EXCEPT !.pc = "threw"]]

PathGetSib(c) ==
  LET cr == call[c]
      tr == tree[cr.name]
  IN
  /\ cr.pc = "getPathSib"
  /\ PathSibRead(c, cr, ReadResult(cr.key, tr.emptyHashCache, cr.depth),
                 CacheAfterRead(cr.key, tr.emptyHashCache, cr.depth))
  /\ UNCHANGED <<db, leaves, dirty, lastRet, budget, aborts>>

(* the sibling read hits a store fault *)
PathGetSibFault(c) ==
  LET cr == call[c]
      tr == tree[cr.name]
  IN
  /\ cr.pc = "getPathSib" /\ aborts > 0
  /\ PathSibRead(c, [cr EXCEPT !.faults = Append(@, Len(cr.ops))],
                 ReadFault(tr.emptyHashCache, cr.depth),
                 GrowCache(tr.emptyHashCache, cr.depth))
  /\ aborts' = aborts - 1
  /\ UNCHANGED <<db, leaves, dirty, lastRet, budget>>

(* mutant: the node always goes first *)
PathPairNodeFirst(index, nodeHash, siblingHash) == <<nodeHash, siblingHash>>

(* the pair pushed to pathData: the node first when its index is even *)
PathPair(index, nodeHash, siblingHash) ==
  IF And1(index) = 0 THEN <<nodeHash, siblingHash>> ELSE <<siblingHash, nodeHash>>

(* getHashPath once readNode has returned nodeHash: push the pair, move up *)
PathNodeRead(c, cr, nodeHash, cache) ==
  LET pair == PathPair(cr.index, nodeHash, cr.siblingHash) IN
  /\ tree' = [tree EXCEPT ![cr.name].emptyHashCache = cache]
  /\ call' = [call EXCEPT ![c] =
       PathLoop([cr EXCEPT !.pathData = Append(@, pair), !.siblingHash = NoBuf,
                           !.depth = cr.depth + 1, !.index = Shr1(cr.index)],
                tree[cr.name])]

PathGetNode(c) ==
  LET cr == call[c]
      tr == tree[cr.name]
  IN
  /\ cr.pc = "getPathNode"
  /\ PathNodeRead(c, cr, ReadResult(cr.key, tr.emptyHashCache, cr.depth),
                  CacheAfterRead(cr.key, tr.emptyHashCache, cr.depth))
  /\ UNCHANGED <<db, leaves, dirty, lastRet, budget, aborts>>

(* the node read hits a store fault *)
PathGetNodeFault(c) ==
  LET cr == call[c]
      tr == tree[cr.name]
  IN
  /\ cr.pc = "getPathNode" /\ aborts > 0
  /\ PathNodeRead(c, [cr EXCEPT !.faults = Append(@, Len(cr.ops))],
                  ReadFault(tr.emptyHashCache, cr.depth),
                  GrowCache(tr.emptyHashCache, cr.depth))
  /\ aborts' = aborts - 1
  /\ UNCHANGED <<db, leaves, dirty, lastRet, budget>>

(* ----- the environment ----- *)
(* An updateElement does not get past its pending store operation: the put is
   rejected, or the caller is gone before the operation is carried out. *)
Abort(c) ==
  LET cr == call[c] IN
  /\ InFlight(c) /\ cr.kind = "update" /\ aborts > 0
  /\ call' = [call EXCEPT ![c].pc = "aborted"]
  /\ dirty' = dirty \cup {cr.name}
  /\ aborts' = aborts - 1
  /\ UNCHANGED <<db, tree, leaves, lastRet, budget>>

(* The instance is dropped, with the results of its finished calls. *)
Close(n) ==
  /\ tree[n].st = "open"
  /\ \A c \in Calls : InFlight(c) => call[c].name # n
  /\ tree' = [tree EXCEPT ![n] = NoTree]
  /\ call' = [c \in Calls |-> IF call[c].name = n THEN Idle ELSE call[c]]
  /\ UNCHANGED <<db, leaves, dirty, lastRet, budget, aborts>>

(* the leaf indices tried: every index of a small tree *)
Indices(n) ==
  IF tree[n].depth \in SmallDepths THEN { Num(i) : i \in 0..(Pow2(tree[n].depth) - 1) } ELSE {}

(* a pending store operation completes and the call runs on to its next one *)
StepNew(c) == NewGet(c) \/ NewPut(c)

StepUpdate(c) ==
  UpdatePutLeaf(c) \/ UpdateGetSib(c) \/ UpdatePutNode(c) \/ UpdatePutMeta(c)

StepPath(c) == PathGetSib(c) \/ PathGetNode(c)

(* ----- one tree under the single-writer discipline: one call at a time ----- *)
Quiet == \A c \in Calls : Free(c)

New == \E d \in ReqDepths : Quiet /\ NewStart(1, TextA, d)

Update ==
  /\ tree[TextA].st = "open" /\ Quiet
  /\ \E i \in Indices(TextA), v \in Values : UpdateStart(1, TextA, i, v)

Path ==
  /\ tree[TextA].st = "open" /\ Quiet
  /\ \E i \in Indices(TextA) : PathStart(1, TextA, i)

Next ==
  \/ New \/ Update \/ Path
  \/ StepNew(1) \/ StepUpdate(1) \/ StepPath(1)
  \/ Abort(1)
  \/ Close(TextA)

Spec == Init /\ [][Next]_vars

IsoValues == { <<97>>, Zeros(LEAF_BYTES + 1) }

(* ----- one tree, updateElement calls overlapping at their store operations ----- *)
LowestFree(c) == Free(c) /\ \A d \in Calls : d < c => InFlight(d)

NewRace == \E d \in SmallDepths : Quiet /\ NewStart(1, TextA, d)

UpdateRace ==
  /\ tree[TextA].st = "open"
  /\ \E c \in Calls, i \in Indices(TextA), v \in IsoValues :
       LowestFree(c) /\ UpdateStart(c, TextA, i, v)

NextRace ==
  \/ NewRace \/ UpdateRace
  \/ \E c \in Calls : StepNew(c) \/ StepUpdate(c)

SpecRace == Init /\ [][NextRace]_vars

(* ----- several trees in one store, one call at a time ----- *)
NewIso == \E n \in AllNames, d \in SmallDepths : Quiet /\ NewStart(1, n, d)

UpdateIso ==
  \E n \in AllNames :
    /\ tree[n].st = "open" /\ Quiet
    /\ \E i \in Indices(n), v \in IsoValues : UpdateStart(1, n, i, v)

NextIso ==
  \/ NewIso \/ UpdateIso
  \/ StepNew(1) \/ StepUpdate(1)

SpecIso == Init /\ [][NextIso]_vars

(* ----- one tree on a store whose gets may fail, one call at a time ----- *)
Fault(c) ==
  NewGetFault(c) \/ UpdateGetSibFault(c) \/ PathGetSibFault(c) \/ PathGetNodeFault(c)

NewFaulty == \E d \in SmallDepths : Quiet /\ NewStart(1, TextA, d)

UpdateFaulty ==
  /\ tree[TextA].st = "open" /\ Quiet
  /\ \E i \in Indices(TextA), v \in IsoValues : UpdateStart(1, TextA, i, v)

NextFault ==
  \/ NewFaulty \/ UpdateFaulty \/ Path
  \/ StepNew(1) \/ StepUpdate(1) \/ StepPath(1)
  \/ Fault(1)
  \/ Close(TextA)

SpecFault == Init /\ [][NextFault]_vars

(* ----- one tree of the greatest depth, indices over the whole uint32 range ----- *)
(* 0, 1, 2^31 - 1, 2^31 and 2^32 - 1 *)
WideIndices ==
  { Num(0), Num(1), <<Two15 - 1, Two16 - 1>>, <<Two15, 0>>, <<Two16 - 1, Two16 - 1>> }

NewWide == Quiet /\ NewStart(1, TextA, MAX_DEPTH)

UpdateWide ==
  /\ tree[TextA].st = "open" /\ Quiet
  /\ \E i \in WideIndices : UpdateStart(1, TextA, i, <<97>>)

PathWide ==
  /\ tree[TextA].st = "open" /\ Quiet
  /\ \E i \in WideIndices : PathStart(1, TextA, i)

NextWide ==
  \/ NewWide \/ UpdateWide \/ PathWide
  \/ StepNew(1) \/ StepUpdate(1) \/ StepPath(1)

SpecWide == Init /\ [][NextWide]_vars

(* ======================= reference definitions ======================= *)
(* the empty-subtree digest by its definition, without the hasher's cache *)
RECURSIVE RefEmptyTable(_, _)
RefEmptyTable(tab, d) ==
  IF Len(tab) > d THEN tab
  ELSE RefEmptyTable(Append(tab, compress(tab[Len(tab)], tab[Len(tab)])), d)

RefEmptyAll == RefEmptyTable(<< hash(Bytes(Zeros(64))) >>, MAX_DEPTH + 1)

RefEmpty(d) == RefEmptyAll[d + 1]

(* the Merkle tree over a leaf vector L (index -> payload written last) *)
RECURSIVE RefNodeOf(_, _, _)
RefNodeOf(L, l, k) ==
  IF l = 0
  THEN IF Num(k) \in DOMAIN L THEN hash(Bytes(L[Num(k)])) ELSE hash(Bytes(Zeros(64)))
  ELSE compress(RefNodeOf(L, l - 1, 2 * k), RefNodeOf(L, l - 1, 2 * k + 1))

RefRootOf(L, D) == RefNodeOf(L, D, 0)

(* what readNode(l, k) of tree n returns on store d *)
NodeIn(d, n, l, k) ==
  IF NodeKey(n, l, Num(k)) \in DOMAIN d THEN d[NodeKey(n, l, Num(k))] ELSE RefEmpty(l)

Positions(D) == { <<l, k>> : l \in 0..D, k \in 0..(Pow2(D) - 1) }

InTree(D, pos) == pos[2] < Pow2(D - pos[1])

Bit(i, l) == (i \div Pow2(l)) % 2

Settled(n) == tree[n].st = "open" /\ (\A c \in Calls : InFlight(c) => call[c].name # n)

(* ============================== claims ============================== *)

(* C1: on a tree whose updateElement calls all ran one at a time and to their
   end, getRoot() is the Merkle root of the leaf vector holding hash(v) for the
   payload v written last at each index and hash(64 zero bytes) elsewhere; the
   order of the updates does not matter. *)
C1_RootIsMerkleRoot ==
  \A n \in AllNames :
    (Settled(n) /\ n \notin dirty /\ tree[n].depth \in SmallDepths)
      => tree[n].root = RefRootOf(leaves[n], tree[n].depth)

C1_Witness ==
  /\ Settled(TextA) /\ TextA \notin dirty
  /\ tree[TextA].depth = 2
  /\ call[1].kind = "update" /\ call[1].pc = "done"
  /\ Cardinality(DOMAIN leaves[TextA]) = 2
  /\ \A i \in DOMAIN leaves[TextA] : leaves[TextA][i] # Zeros(64)
  /\ tree[TextA].root = RefRootOf(leaves[TextA], 2)

(* C2: a getHashPath(i) that ran alone on such a tree returns D pairs; the
   compression of each pair is the member of the next pair on the side given by
   the next bit of i, and the compression of the last pair is getRoot(). *)
C2_PathFoldsToRoot ==
  \A c \in Calls :
    LET cr == call[c]
        D == tree[cr.name].depth
        P == cr.pathData
    IN (cr.kind = "path" /\ cr.pc = "done" /\ ~cr.overlapped /\ cr.name \notin dirty)
       => /\ Len(P) = D
          /\ \A l \in 1..(D - 1) :
               compress(P[l][1], P[l][2]) = P[l + 1][Bit(cr.argIndex[2], l) + 1]
          /\ compress(P[D][1], P[D][2]) = tree[cr.name].root

C2_Witness ==
  /\ call[1].kind = "path" /\ call[1].pc = "done"
  /\ TextA \notin dirty
  /\ tree[TextA].depth = 2
  /\ call[1].argIndex = Num(3)
  /\ Cardinality(DOMAIN leaves[TextA]) = 2
  /\ Len(call[1].pathData) = 2
  /\ call[1].pathData[1][2] # RefEmpty(0)

(* C3: an updateElement whose payload is longer than 64 bytes fails with the
   value-length error before any store put, leaving the store and getRoot()
   as they were (and one of at most 64 bytes is not refused). *)
C3_OversizedLeafRejected ==
  \A c \in Calls :
    LET cr == call[c] IN
    cr.kind = "update"
      => IF Len(cr.argValue) > LEAF_BYTES
         THEN cr.pc = "threw" /\ db = cr.preDb /\ tree[cr.name].root = cr.preRoot
         ELSE cr.pc # "threw"

(* C4, as claimed: once an updateElement has been abandoned, readNode returns at
   every position what it returned before the call. *)
C4_AbortedUpdateLeavesNoTrace ==
  \A c \in Calls :
    LET cr == call[c]
        D == tree[cr.name].depth
    IN (cr.kind = "update" /\ cr.pc = "aborted" /\ ~cr.overlapped)
       => \A pos \in Positions(D) :
            InTree(D, pos) =>
              NodeIn(db, cr.name, pos[1], pos[2]) = NodeIn(cr.preDb, cr.name, pos[1], pos[2])

OnPath(i, pos) == pos[2] = i \div Pow2(pos[1])

(* C4, amended: an abandoned updateElement(i, v) leaves the metadata record and
   every node off the leaf-to-root path of i as they were, but it is not undone:
   once its leaf put has completed, readNode(0, i) returns hash(v). *)
C4_AbortedUpdateFrame ==
  \A c \in Calls :
    LET cr == call[c]
        D == tree[cr.name].depth
        i == cr.argIndex[2]
    IN (cr.kind = "update" /\ cr.pc = "aborted" /\ ~cr.overlapped)
       => /\ MetaKey(cr.name) \in DOMAIN db /\ MetaKey(cr.name) \in DOMAIN cr.preDb
          /\ db[MetaKey(cr.name)] = cr.preDb[MetaKey(cr.name)]
          /\ \A pos \in Positions(D) :
               (InTree(D, pos) /\ ~OnPath(i, pos)) =>
                 /\ NodeKey(cr.name, pos[1], Num(pos[2])) \in DOMAIN db
                      <=> NodeKey(cr.name, pos[1], Num(pos[2])) \in DOMAIN cr.preDb
                 /\ NodeIn(db, cr.name, pos[1], pos[2])
                      = NodeIn(cr.preDb, cr.name, pos[1], pos[2])
          /\ Len(cr.ops) >= 2 => NodeIn(db, cr.name, 0, i) = hash(Bytes(cr.argValue))

C4_Witness ==
  /\ call[1].kind = "update" /\ call[1].pc = "aborted"
  /\ tree[TextA].depth = 2
  /\ Len(call[1].ops) >= 4
  /\ NodeIn(db, TextA, 0, call[1].argIndex[2]) # NodeIn(call[1].preDb, TextA, 0, call[1].argIndex[2])
  /\ NodeIn(db, TextA, 1, call[1].argIndex[2] \div 2)
       # NodeIn(call[1].preDb, TextA, 1, call[1].argIndex[2] \div 2)
  /\ tree[TextA].root = call[1].preRoot

(* C6, as claimed: new with a requested depth outside 1..32 always fails, and
   before any store get or put has been issued. *)
C6_BadDepthFailsBeforeIo ==
  \A c \in Calls :
    LET cr == call[c] IN
    (cr.kind = "new" /\ ~(cr.argDepth >= 1 /\ cr.argDepth <= MAX_DEPTH))
      => /\ cr.ops = <<>>
         /\ cr.pc \in {"done", "threw"} => cr.pc = "threw"
         /\ db = cr.preDb

(* C6, amended: new with a requested depth outside 1..32 issues the get of the
   metadata record and no put, so the store stays as it was; it fails with the
   construction error exactly when no record is found under the name, and when
   one is found the requested depth is ignored and the tree is loaded. *)
C6_BadDepthFailsIffNoRecord ==
  \A c \in Calls :
    LET cr == call[c] IN
    (cr.kind = "new" /\ ~(cr.argDepth >= 1 /\ cr.argDepth <= MAX_DEPTH))
      => /\ cr.pc \in {"newGet", "done", "threw"}
         /\ cr.ops = << <<"get", MetaKey(cr.name)>> >>
         /\ db = cr.preDb
         /\ cr.pc = "threw" => (MetaKey(cr.name) \notin DOMAIN db /\ tree[cr.name].st = "none")
         /\ cr.pc = "done" =>
              /\ MetaKey(cr.name) \in DOMAIN db
              /\ tree[cr.name].st = "open"
              /\ tree[cr.name].depth = lastRet[cr.name].depth

C6_Witness ==
  /\ call[1].kind = "new" /\ call[1].argDepth = MAX_DEPTH + 1
  /\ call[1].pc = "done"
  /\ tree[TextA].st = "open" /\ tree[TextA].depth = 2
  /\ DOMAIN leaves[TextA] # {}

(* C7: re-opening a name that has a metadata record, with any requested depth,
   gives a tree whose root is the root returned last (by the new that created
   the record, or by the last completed updateElement) and whose depth is the
   depth the tree was created with. *)
C7_ReopenRestoresRootAndDepth ==
  \A c \in Calls :
    LET cr == call[c] IN
    (cr.kind = "new" /\ cr.pc \in {"done", "threw"} /\ MetaKey(cr.name) \in DOMAIN cr.preDb)
      => /\ cr.pc = "done"
         /\ tree[cr.name].st = "open"
         /\ tree[cr.name].root = lastRet[cr.name].root
         /\ tree[cr.name].depth = lastRet[cr.name].depth

C7_Witness ==
  /\ call[1].kind = "new" /\ call[1].pc = "done"
  /\ MetaKey(TextA) \in DOMAIN call[1].preDb
  /\ call[1].argDepth = 1 /\ tree[TextA].depth = 2
  /\ Cardinality(DOMAIN leaves[TextA]) = 2
  /\ tree[TextA].root # RefEmpty(2)
  /\ tree[TextA].root = lastRet[TextA].root

LastOp(cr) == cr.ops[Len(cr.ops)]

(* C8, as claimed: after an updateElement abandoned at any step up to and
   including its metadata put, getRoot() and the root field of the metadata
   record are the root from before the call. *)
C8_AbortKeepsBothRoots ==
  \A c \in Calls :
    LET cr == call[c] IN
    (cr.kind = "update" /\ cr.pc = "aborted" /\ ~cr.overlapped)
      => /\ tree[cr.name].root = cr.preRoot
         /\ SliceHead(db[MetaKey(cr.name)], 32) = SliceHead(cr.preDb[MetaKey(cr.name)], 32)

(* C8, amended: after an abandoned updateElement the metadata record is the one
   from before the call; getRoot() returns the root from before the call if the
   call was abandoned before its level-D node put completed, and the call's new
   root if it was abandoned at the metadata put, the root being assigned before
   that put is issued. *)
C8_AbortKeepsPersistedRoot ==
  \A c \in Calls :
    LET cr == call[c] IN
    (cr.kind = "update" /\ cr.pc = "aborted" /\ ~cr.overlapped)
      => /\ db[MetaKey(cr.name)] = cr.preDb[MetaKey(cr.name)]
         /\ LastOp(cr) # <<"put", MetaKey(cr.name)>> => tree[cr.name].root = cr.preRoot
         /\ LastOp(cr) = <<"put", MetaKey(cr.name)>> => tree[cr.name].root = cr.hashValue

C8_Witness ==
  /\ call[1].kind = "update" /\ call[1].pc = "aborted"
  /\ LastOp(call[1]) = <<"put", MetaKey(TextA)>>
  /\ tree[TextA].root # call[1].preRoot
  /\ SliceHead(db[MetaKey(TextA)], 32) = call[1].preRoot

(* C9: a tree created under a name without a metadata record has the root
   emptyHash(D), and the record (emptyHash(D), D) is in the store when new
   returns; emptyHash(0) = hash(64 zero bytes), emptyHash(d) =
   compress(emptyHash(d-1), emptyHash(d-1)), and the hasher returns this value
   whatever it was asked before (tried: the depths 0, 1, 2 and 32, and those
   just below, at and just above the highest depth cached). *)
DepthsAsked(cache) ==
  ({0, 1, 2, MAX_DEPTH} \cup {Len(cache) - 2, Len(cache) - 1, Len(cache)}) \cap (0..MAX_DEPTH)

C9_EmptyTreeRoot ==
  /\ \A c \in Calls :
       LET cr == call[c] IN
       (cr.kind = "new" /\ cr.pc = "done" /\ MetaKey(cr.name) \notin DOMAIN cr.preDb)
         => /\ tree[cr.name].st = "open"
            /\ tree[cr.name].depth = cr.argDepth
            /\ tree[cr.name].root = RefEmpty(cr.argDepth)
            /\ MetaKey(cr.name) \in DOMAIN db
            /\ db[MetaKey(cr.name)]
                 = Concat(RefEmpty(cr.argDepth), Bytes(LE32(Num(cr.argDepth)) \o Zeros(4)))
  /\ \A n \in AllNames :
       tree[n].st # "none" =>
         \A d \in DepthsAsked(tree[n].emptyHashCache) :
            emptyHash(tree[n].emptyHashCache, d) = RefEmpty(d)

C9_Witness ==
  /\ call[1].kind = "new" /\ call[1].pc = "done"
  /\ MetaKey(TextA) \notin DOMAIN call[1].preDb
  /\ call[1].argDepth = MAX_DEPTH
  /\ tree[TextA].root = RefEmpty(MAX_DEPTH)

With(L, i, v) == [k \in DOMAIN L \cup {i} |-> IF k = i THEN v ELSE L[k]]

(* C5: two updateElement calls on distinct indices of one tree that overlapped
   and both completed leave both leaf hashes in the store, but getRoot() is
   either the Merkle root of the stored leaves or a root that reflects only one
   of the two writes; the witness is a state where it is the latter. *)
C5_OverlapLosesUpdate ==
  LET a == call[1]
      b == call[2]
      D == tree[a.name].depth
      L == a.preLeaves
  IN (/\ a.kind = "update" /\ b.kind = "update" /\ a.pc = "done" /\ b.pc = "done"
      /\ a.name = b.name /\ a.argIndex # b.argIndex
      /\ a.overlapped /\ b.overlapped /\ ~a.preDirty /\ ~b.preDirty)
     => /\ b.preLeaves = L
        /\ NodeIn(db, a.name, 0, a.argIndex[2]) = hash(Bytes(a.argValue))
        /\ NodeIn(db, b.name, 0, b.argIndex[2]) = hash(Bytes(b.argValue))
        /\ tree[a.name].root \in
             { RefRootOf(With(With(L, a.argIndex, a.argValue), b.argIndex, b.argValue), D),
               RefRootOf(With(L, a.argIndex, a.argValue), D),
               RefRootOf(With(L, b.argIndex, b.argValue), D) }

C5_Witness ==
  LET a == call[1]
      b == call[2]
      D == tree[TextA].depth
  IN /\ a.kind = "update" /\ b.kind = "update" /\ a.pc = "done" /\ b.pc = "done"
     /\ a.argIndex # b.argIndex
     /\ a.overlapped /\ b.overlapped /\ ~a.preDirty /\ ~b.preDirty
     /\ D = 2
     /\ NodeIn(db, TextA, 0, a.argIndex[2]) = hash(Bytes(a.argValue))
     /\ NodeIn(db, TextA, 0, b.argIndex[2]) = hash(Bytes(b.argValue))
     /\ tree[TextA].root # RefRootOf(leaves[TextA], D)
     /\ tree[TextA].root = RefRootOf(With(a.preLeaves, b.argIndex, b.argValue), D)

NodePositions == { <<l, k>> : l \in 0..2, k \in 0..3 }

SameRecord(d, e, key) ==
  /\ key \in DOMAIN d <=> key \in DOMAIN e
  /\ key \in DOMAIN d => d[key] = e[key]

(* what tree m shows of itself: its metadata record and its nodes *)
SameTree(d, e, m) ==
  /\ SameRecord(d, e, MetaKey(m))
  /\ \A pos \in NodePositions : SameRecord(d, e, NodeKey(m, pos[1], Num(pos[2])))

(* the trees that had been created when the call started *)
Created(cr) == { m \in AllNames : lastRet[m].depth # 0 /\ MetaKey(m) \in DOMAIN cr.preDb }

(* C10, as claimed: an updateElement on one tree leaves the metadata record and
   every node of any tree of another name as they were. *)
C10_OtherTreesUntouched ==
  \A c \in Calls :
    LET cr == call[c] IN
    cr.kind = "update" => \A m \in Created(cr) \ {cr.name} : SameTree(db, cr.preDb, m)

(* the name of one tree is the key string of a node of the other *)
Alias(n, m) ==
  \E pos \in NodePositions :
    \/ NodeKey(n, pos[1], Num(pos[2])) = MetaKey(m)
    \/ NodeKey(m, pos[1], Num(pos[2])) = MetaKey(n)

(* C10, amended: an updateElement on one tree leaves the metadata record and
   every node of a tree of another name as they were, provided neither name is
   the key string of a node of the other tree: node keys and metadata keys
   share the store's one key space. *)
C10_UnaliasedTreesUntouched ==
  \A c \in Calls :
    LET cr == call[c] IN
    cr.kind = "update" =>
      \A m \in Created(cr) \ {cr.name} : ~Alias(cr.name, m) => SameTree(db, cr.preDb, m)

C10_Witness ==
  /\ call[1].kind = "update" /\ call[1].pc = "done" /\ call[1].name = TextA
  /\ tree[TextB].st = "open" /\ DOMAIN leaves[TextB] # {}
  /\ tree[TextA].depth = tree[TextB].depth
  /\ call[1].argIndex \in DOMAIN leaves[TextB]
  /\ SameTree(db, call[1].preDb, TextB)
  /\ tree[TextA].root # call[1].preRoot

(* C11: an updateElement(i, v) that runs to its end on a tree where the last
   write at i was v (so: directly after a completed updateElement(i, v))
   returns the root the tree had, which is the root the first call returned,
   and leaves every record of the store, node or metadata, as it was. *)
C11_SecondUpdateChangesNothing ==
  /\ \A n \in AllNames :
       (Settled(n) /\ n \notin dirty) => tree[n].root = lastRet[n].root
  /\ \A c \in Calls :
       LET cr == call[c] IN
       (/\ cr.kind = "update" /\ cr.pc \in {"done", "threw"}
        /\ ~cr.overlapped /\ ~cr.preDirty
        /\ cr.argIndex \in DOMAIN cr.preLeaves
        /\ cr.preLeaves[cr.argIndex] = cr.argValue)
         => /\ cr.pc = "done"
            /\ cr.ret = cr.preRoot
            /\ tree[cr.name].root = cr.preRoot
            /\ db = cr.preDb

C11_Witness ==
  /\ call[1].kind = "update" /\ call[1].pc = "done"
  /\ tree[TextA].depth = 2
  /\ budget = MaxUpdates - 2 /\ aborts = MaxAborts
  /\ call[1].argIndex = Num(1) /\ call[1].argValue = <<97>>
  /\ call[1].preLeaves = [k \in {Num(1)} |-> <<97>>]
  /\ call[1].ret = call[1].preRoot
  /\ call[1].ret # RefEmpty(2)
  /\ db = call[1].preDb

(* index arithmetic on unsigned numbers: the lowest bit flipped, and the half *)
RefFlip(x) == << x[1], IF x[2] % 2 = 0 THEN x[2] + 1 ELSE x[2] - 1 >>

RefHalf(x) == << x[1] \div 2, (x[2] \div 2) + (x[1] % 2) * Two15 >>

RECURSIVE RefShift(_, _)
RefShift(x, l) == IF l = 0 THEN x ELSE RefShift(RefHalf(x), l - 1)

(* C12: on a tree of depth 32, for every leaf index of the uint32 range,
   updateElement and getHashPath raise no error; at every level l the index
   they hold is floor(i / 2^l), the sibling they read is that index with its
   lowest bit flipped and the parent they write is its half. *)
C12_IndexArithmeticWholeRange ==
  \A c \in Calls :
    LET cr == call[c]
        l == IF cr.kind = "update" /\ cr.depth > 0 THEN cr.depth - 1 ELSE cr.depth
        j == RefShift(cr.argIndex, l)
    IN (cr.kind \in {"update", "path"} /\ tree[cr.name].depth = MAX_DEPTH)
       => /\ cr.pc # "threw"
          /\ cr.index = j
          /\ cr.pc \in {"getSib", "getPathSib"} => cr.key = NodeKey(cr.name, l, RefFlip(j))
          /\ cr.pc = "getPathNode" => cr.key = NodeKey(cr.name, l, j)
          /\ cr.pc = "putNode" => cr.key = NodeKey(cr.name, l + 1, RefHalf(j))

(* the three roots of tree n: getRoot(), readNode(D, 0) and the root field of
   the metadata record, whose depth field is the tree's depth *)
RootsAgree(n) ==
  /\ MetaKey(n) \in DOMAIN db
  /\ CanReadUInt32LE(db[MetaKey(n)], 32)
  /\ ReadUInt32LE(db[MetaKey(n)], 32) = Num(tree[n].depth)
  /\ SliceHead(db[MetaKey(n)], 32) = tree[n].root
  /\ NodeIn(db, n, tree[n].depth, 0) = tree[n].root

(* C13, as claimed: right after every open and after every completed
   updateElement the three roots are equal. *)
C13_RootsAgreeAfterOpenAndUpdate ==
  \A c \in Calls :
    LET cr == call[c] IN
    (cr.kind \in {"new", "update"} /\ cr.pc = "done" /\ ~cr.overlapped) => RootsAgree(cr.name)

(* C13, amended: after every completed updateElement the three roots are equal;
   right after an open getRoot() is the root field of the record and the depth
   field is the tree's depth, and readNode(D, 0) is equal to them provided no
   updateElement on the tree was abandoned: an abandoned one may have put the
   node (D, 0) without the record. *)
C13_RootsAgreeUnlessAbandoned ==
  \A c \in Calls :
    LET cr == call[c]
        n == cr.name
    IN /\ (cr.kind = "update" /\ cr.pc = "done" /\ ~cr.overlapped) => RootsAgree(n)
       /\ (cr.kind = "new" /\ cr.pc = "done") =>
            /\ MetaKey(n) \in DOMAIN db
            /\ CanReadUInt32LE(db[MetaKey(n)], 32)
            /\ ReadUInt32LE(db[MetaKey(n)], 32) = Num(tree[n].depth)
            /\ SliceHead(db[MetaKey(n)], 32) = tree[n].root
            /\ n \notin dirty => NodeIn(db, n, tree[n].depth, 0) = tree[n].root

C13_Witness ==
  /\ call[1].kind = "update" /\ call[1].pc = "done"
  /\ tree[TextA].depth = 2
  /\ TextA \in dirty
  /\ RootsAgree(TextA)
  /\ tree[TextA].root # call[1].preRoot
  /\ Cardinality(DOMAIN leaves[TextA]) = 1

(* C14: a getHashPath(i) that ran alone returns exactly D pairs, and the pair of
   level l is (node(l, j - j mod 2), node(l, j - j mod 2 + 1)) with
   j = floor(i / 2^l): the even-indexed node first; node(l, k) is the value
   stored at (l, k), or the empty-subtree digest of depth l. *)
C14_PathShape ==
  \A c \in Calls :
    LET cr == call[c]
        D == tree[cr.name].depth
        P == cr.pathData
    IN (cr.kind = "path" /\ cr.pc \in {"done", "threw"} /\ ~cr.overlapped)
       => /\ cr.pc = "done"
          /\ Len(P) = D
          /\ \A l \in 0..(D - 1) :
               LET j == cr.argIndex[2] \div Pow2(l)
                   even == j - (j % 2)
               IN P[l + 1] = << NodeIn(db, cr.name, l, even), NodeIn(db, cr.name, l, even + 1) >>

(* on a fresh tree of depth 2, after updateElement(0, a), the path of index 0
   is [(H(a), e0), (C(H(a), e0), e1)] *)
C14_Witness ==
  /\ call[1].kind = "path" /\ call[1].pc = "done"
  /\ tree[TextA].depth = 2
  /\ TextA \notin dirty
  /\ leaves[TextA] = [k \in {Num(0)} |-> <<97>>]
  /\ call[1].argIndex = Num(0)
  /\ call[1].pathData =
       << << hash(Bytes(<<97>>)), RefEmpty(0) >>,
          << compress(hash(Bytes(<<97>>)), RefEmpty(0)), RefEmpty(1) >> >>

(* C15: an updateElement(i, 64 zero bytes) that runs to its end on a tree where
   leaf i was never written returns the root the tree had, and readNode returns
   at every position what it returned before: the nodes now stored are the
   empty-subtree digests that were returned for them while they were absent. *)
C15_EmptyWriteChangesNothingRead ==
  \A c \in Calls :
    LET cr == call[c]
        D == tree[cr.name].depth
    IN (/\ cr.kind = "update" /\ cr.pc \in {"done", "threw"}
        /\ ~cr.overlapped /\ ~cr.preDirty
        /\ cr.argValue = Zeros(LEAF_BYTES)
        /\ cr.argIndex \notin DOMAIN cr.preLeaves)
       => /\ cr.pc = "done"
          /\ cr.ret = cr.preRoot
          /\ tree[cr.name].root = cr.preRoot
          /\ \A pos \in Positions(D) :
               InTree(D, pos) =>
                 NodeIn(db, cr.name, pos[1], pos[2]) = NodeIn(cr.preDb, cr.name, pos[1], pos[2])

C15_Witness ==
  /\ call[1].kind = "update" /\ call[1].pc = "done"
  /\ tree[TextA].depth = 2
  /\ ~call[1].preDirty
  /\ call[1].argValue = Zeros(LEAF_BYTES)
  /\ call[1].argIndex = Num(3)
  /\ call[1].preLeaves = [k \in {Num(0)} |-> <<97>>]
  /\ call[1].ret = call[1].preRoot
  /\ NodeKey(TextA, 0, Num(3)) \notin DOMAIN call[1].preDb
  /\ db[NodeKey(TextA, 0, Num(3))] = RefEmpty(0)
  /\ NodeKey(TextA, 1, Num(1)) \notin DOMAIN call[1].preDb
  /\ db[NodeKey(TextA, 1, Num(1))] = RefEmpty(1)

(* C16: a new on a name that has a metadata record issues no put and leaves the
   record as it was, whether the store's get returns the record or fails; and
   a getHashPath, which is neither a first open nor an updateElement, never
   changes the record. *)
C16_OpenNeverRewritesRecord ==
  \A c \in Calls :
    LET cr == call[c] IN
    /\ (cr.kind = "new" /\ MetaKey(cr.name) \in DOMAIN cr.preDb)
         => /\ \A k \in 1..Len(cr.ops) : cr.ops[k][1] # "put"
            /\ SameRecord(db, cr.preDb, MetaKey(cr.name))
    /\ cr.kind = "path" => SameRecord(db, cr.preDb, MetaKey(cr.name))

Range(f) == { f[k] : k \in DOMAIN f }

(* the root an updateElement computes: at level l the sibling is the value
   stored in d, or the empty-subtree digest where none is stored or where the
   read (the operation 2l of the call) failed *)
RECURSIVE RefUpdateFold(_, _, _, _, _, _)
RefUpdateFold(d, cr, D, l, j, h) ==
  IF l > D THEN h
  ELSE LET sib == IF (2 * l) \in Range(cr.faults)
                  THEN RefEmpty(l - 1)
                  ELSE NodeIn(d, cr.name, l - 1, IF j % 2 = 0 THEN j + 1 ELSE j - 1)
       IN RefUpdateFold(d, cr, D, l + 1, j \div 2,
                        IF j % 2 = 0 THEN compress(h, sib) ELSE compress(sib, h))

(* C17: readNode returns the stored value when the get succeeds and the
   empty-subtree digest of its level when the get fails, for whatever reason,
   and never raises; an updateElement whose sibling reads hit store faults
   completes, and the root it returns, sets and persists is computed with the
   empty-subtree digest in place of each sibling whose read failed. *)
C17_ReadFaultMaskedAsEmpty ==
  \A c \in Calls :
    LET cr == call[c]
        n == cr.name
        D == tree[n].depth
        failed == Len(cr.ops) - 1 \in Range(cr.faults)
    IN /\ cr.kind \in {"update", "path"} => cr.pc # "threw"
       /\ (cr.kind = "update" /\ cr.pc = "putNode") =>
            cr.siblingHash =
              IF failed THEN RefEmpty(cr.depth - 1)
              ELSE NodeIn(db, n, cr.depth - 1, RefFlip(cr.index)[2])
       /\ (cr.kind = "path" /\ cr.pc = "getPathNode") =>
            cr.siblingHash =
              IF failed THEN RefEmpty(cr.depth)
              ELSE NodeIn(db, n, cr.depth, RefFlip(cr.index)[2])
       /\ (cr.kind = "update" /\ cr.pc = "done") =>
            /\ cr.ret = RefUpdateFold(db, cr, D, 1, cr.argIndex[2], hash(Bytes(cr.argValue)))
            /\ tree[n].root = cr.ret
            /\ SliceHead(db[MetaKey(n)], 32) = cr.ret

C17_Witness ==
  /\ call[1].kind = "update" /\ call[1].pc = "done"
  /\ tree[TextA].depth = 2
  /\ call[1].argIndex = Num(1)
  /\ call[1].faults = <<2>>
  /\ NodeKey(TextA, 0, Num(0)) \in DOMAIN db
  /\ db[NodeKey(TextA, 0, Num(0))] # RefEmpty(0)
  /\ call[1].ret = compress(compress(RefEmpty(0), hash(Bytes(call[1].argValue))), RefEmpty(1))
  /\ call[1].ret # RefRootOf(leaves[TextA], 2)
  /\ SliceHead(db[MetaKey(TextA)], 32) = call[1].ret

(* the store operations of updateElement(i, .) on tree n of depth D, in order *)
RECURSIVE RefUpdateOps(_, _, _, _)
RefUpdateOps(n, D, l, j) ==
  IF l > D THEN << <<"put", MetaKey(n)>> >>
  ELSE << <<"get", NodeKey(n, l - 1, RefFlip(Num(j)))>>,
          <<"put", NodeKey(n, l, Num(j \div 2))>> >>
       \o RefUpdateOps(n, D, l + 1, j \div 2)

(* the store operations of getHashPath(i), in order *)
RECURSIVE RefPathOps(_, _, _, _)
RefPathOps(n, D, l, j) ==
  IF l >= D THEN <<>>
  ELSE << <<"get", NodeKey(n, l, RefFlip(Num(j)))>>, <<"get", NodeKey(n, l, Num(j))>> >>
       \o RefPathOps(n, D, l + 1, j \div 2)

IsPrefix(p, q) == Len(p) <= Len(q) /\ p = SubSeq(q, 1, Len(p))

(* C18: the store operations of one updateElement(i, v) are, in this order: the
   put of (0, i); for l = 1..D the get of the sibling of (l-1, i >> (l-1)) and
   then the put of (l, i >> l); the metadata put, last.  getRoot() stays the
   old root until the put of level D has completed.  The 2D gets of one
   getHashPath go level by level, the sibling before the node.  Both leave
   their loop after exactly D iterations (indices below 2^31; see C12). *)
C18_OperationOrder ==
  \A c \in Calls :
    LET cr == call[c]
        n == cr.name
        D == tree[n].depth
        i == cr.argIndex[2]
        upd == << <<"put", NodeKey(n, 0, Num(i))>> >> \o RefUpdateOps(n, D, 1, i)
        pth == RefPathOps(n, D, 0, i)
    IN /\ cr.kind = "update" =>
            /\ cr.pc # "threw"
            /\ IsPrefix(cr.ops, upd)
            /\ Len(upd) = 2 * D + 2
            /\ cr.pc = "done" => (cr.ops = upd /\ cr.depth = D + 1)
            /\ (~cr.overlapped /\ Len(cr.ops) < Len(upd)) => tree[n].root = cr.preRoot
       /\ cr.kind = "path" =>
            /\ cr.pc # "threw"
            /\ IsPrefix(cr.ops, pth)
            /\ Len(pth) = 2 * D
            /\ cr.pc = "done" => (cr.ops = pth /\ cr.depth = D /\ Len(cr.pathData) = D)

C18_Witness ==
  /\ call[1].kind = "update" /\ call[1].pc = "done"
  /\ tree[TextA].depth = 2
  /\ call[1].argIndex = Num(2)
  /\ call[1].ops =
       << <<"put", NodeKey(TextA, 0, Num(2))>>,
          <<"get", NodeKey(TextA, 0, Num(3))>>, <<"put", NodeKey(TextA, 1, Num(1))>>,
          <<"get", NodeKey(TextA, 1, Num(0))>>, <<"put", NodeKey(TextA, 2, Num(0))>>,
          <<"put", MetaKey(TextA)>> >>
  /\ tree[TextA].root # call[1].preRoot

(* the keys of the nodes on the leaf-to-root path of index i *)
PathKeys(n, D, i) == { NodeKey(n, l, Num(i \div Pow2(l))) : l \in 0..D }

Changed(d, e) == { k \in DOMAIN d \cup DOMAIN e : ~SameRecord(d, e, k) }

(* C19: an updateElement(i, v) changes, of the whole store, at most the D+1
   nodes (l, floor(i / 2^l)), l = 0..D, and the metadata record of its tree,
   and removes no record; a getHashPath, with the readNode calls it makes,
   changes neither the store nor the root (getRoot only returns the root). *)
C19_UpdateFrame ==
  \A c \in Calls :
    LET cr == call[c]
        n == cr.name
        D == tree[n].depth
    IN /\ (cr.kind = "update" /\ ~cr.overlapped) =>
            /\ Changed(db, cr.preDb) \subseteq PathKeys(n, D, cr.argIndex[2]) \cup {MetaKey(n)}
            /\ DOMAIN cr.preDb \subseteq DOMAIN db
            /\ \A pos \in Positions(D) :
                 (InTree(D, pos) /\ ~OnPath(cr.argIndex[2], pos)) =>
                   SameRecord(db, cr.preDb, NodeKey(n, pos[1], Num(pos[2])))
       /\ (cr.kind = "path" /\ ~cr.overlapped) =>
            (db = cr.preDb /\ tree[n].root = cr.preRoot)

C19_Witness ==
  /\ call[1].kind = "update" /\ call[1].pc = "done"
  /\ tree[TextA].depth = 2
  /\ call[1].argIndex = Num(2)
  /\ DOMAIN call[1].preLeaves = {Num(1)}
  /\ Changed(db, call[1].preDb) = PathKeys(TextA, 2, 2) \cup {MetaKey(TextA)}
  /\ db[NodeKey(TextA, 1, Num(0))] # RefEmpty(1)
  /\ SameRecord(db, call[1].preDb, NodeKey(TextA, 1, Num(0)))

(* the step of call c is a readNode that found no record, so calls emptyHash *)
EmptyHashCalled(c) ==
  /\ call[c].pc \in {"getSib", "getPathSib", "getPathNode"}
  /\ call'[c] # call[c] /\ call'[c].pc # "aborted"
  /\ ~Has(call[c].key)

DepthAsked(c) == IF call[c].pc = "getSib" THEN call[c].depth - 1 ELSE call[c].depth

(* the step constructs the tree of name n, with a new hasher, and calls emptyHash(depth) *)
Constructed(n) == tree[n].st = "none" /\ tree'[n].st = "opening"

(* the cache of one hasher only grows, and what is cached stays *)
CacheOnlyGrows ==
  \A n \in AllNames :
    (tree[n].st # "none" /\ tree'[n].st # "none")
      => IsPrefix(tree[n].emptyHashCache, tree'[n].emptyHashCache)

(* C20, as claimed: the cache only grows; emptyHash(d) extends it only if d is
   above the highest depth cached, and then exactly up to d. *)
C20_CacheExtendsOnlyAboveHighest ==
  [][ /\ CacheOnlyGrows
      /\ \A n \in AllNames :
           Constructed(n) => Len(tree'[n].emptyHashCache) = tree'[n].depth + 1
      /\ \A c \in Calls :
           EmptyHashCalled(c) =>
             LET old == tree[call[c].name].emptyHashCache
                 new == tree'[call[c].name].emptyHashCache
             IN IF DepthAsked(c) > Len(old) - 1
                THEN Len(new) = DepthAsked(c) + 1
                ELSE new = old ]_vars

(* C20, amended: the cache only grows and what is cached stays; emptyHash(d)
   extends it when d is at or above the highest depth cached, and then up to
   depth d + 1, one entry more than the one it returns; it leaves the cache as
   it is when d is below the highest depth cached.  A new hasher has depth 0
   cached, so a tree constructed with depth D has the depths 0..D+1 cached. *)
C20_CacheExtendsOnePast ==
  [][ /\ CacheOnlyGrows
      /\ \A n \in AllNames :
           Constructed(n) =>
             /\ Len(tree'[n].emptyHashCache) = tree'[n].depth + 2
             /\ \A d \in {0, 1, tree'[n].depth, tree'[n].depth + 1} :
                  tree'[n].emptyHashCache[d + 1] = RefEmpty(d)
      /\ \A c \in Calls :
           EmptyHashCalled(c) =>
             LET old == tree[call[c].name].emptyHashCache
                 new == tree'[call[c].name].emptyHashCache
             IN IF DepthAsked(c) >= Len(old) - 1
                THEN /\ Len(new) = DepthAsked(c) + 2
                     /\ new[Len(new)] = RefEmpty(DepthAsked(c) + 1)
                ELSE new = old ]_vars

(* a re-opened tree, whose hasher had only depth 0 cached, after a readNode at
   level 0 that found nothing: depth 1 is cached as well *)
C20_Witness ==
  /\ call[1].kind = "path" /\ call[1].pc = "getPathNode" /\ call[1].depth = 0
  /\ tree[TextA].depth = 2
  /\ call[1].siblingHash = RefEmpty(0)
  /\ call[1].ops[1][2] \notin DOMAIN db
  /\ tree[TextA].emptyHashCache = << RefEmpty(0), RefEmpty(1) >>
====
